---- MODULE Spec2Model ----
(***************************************************************************)
(* Model of the dealsync build pipeline: the retrying generation call, the *)
(* two response parsers and the run of main() that gates the advance of   *)
(* backlog.json on a successful publish.                                   *)
(*                                                                         *)
(* Texts are sequences of one-character strings; indices into a text are   *)
(* 0-based as in JavaScript (the character at index p is t[p + 1]).        *)
(***************************************************************************)
EXTENDS Integers, Sequences, FiniteSets, TLC

VARIABLES
  entry,      \* function under execution at top level: "main", "callGeminiWithRetry", "parseAIResponse"
  variant,    \* script that runs: "part_000" or "build-pipeline"
  pc,         \* position in the code
  disk,       \* backlog.json on disk
  disk0,      \* backlog.json as it was when the run started
  init,       \* the tasks of the first queue document: completed followed by pending
  backlog,    \* the parsed document held by main()
  task,       \* backlog.pending[0] as read by main()
  written,    \* filenames+contents written to the working tree in this run, in order
  note,       \* number of writes of the progress note in this run
  checks,     \* outcomes of the two check commands of this run, in order
  git,        \* git commands that returned successfully in this run, in order
  saves,      \* number of completed writes of backlog.json in this run
  staged,     \* what git add left in the index in this run: "none" before it ran, "changes", "nothing"
  head,       \* task whose edits and progress note dated today the last commit holds, 0 when none
  notes,      \* pending tasks that have a progress note dated today in docs/progress
  overwrote,  \* the progress note of this run was written over an existing note
  exitCode,   \* exit status of the run: "none" while it runs, "0", "1", or "killed", "aborted" without one
  retries,    \* parameter of callGeminiWithRetry
  i,          \* loop index of callGeminiWithRetry
  attempts,   \* outcomes of the model.generateContent calls issued, in order
  waits,      \* backoff delays waited, in order (ms)
  delayMs,    \* delayMs of callGeminiWithRetry
  outcome,    \* result of the generation call: [kind |-> "none" | "value" | "undefined" | "throw", ...]
  text,       \* response text / argument of parseAIResponse
  lastIndex,  \* regex.lastIndex
  changes,    \* the changes array
  match       \* match of the while condition (line 26)

repoVars  == <<staged, head, notes, overwrote>>
mainVars  == <<variant, disk, disk0, init, backlog, task, written, note, checks, git, saves, exitCode,
               repoVars>>
retryVars == <<retries, i, attempts, waits, delayMs, outcome>>
parseVars == <<text, lastIndex, changes, match>>
vars == <<entry, pc, mainVars, retryVars, parseVars>>

(***************************************************************************)
(* Bounds of the model.                                                    *)
(***************************************************************************)
MaxChunks  == 3   \* a text is the concatenation of at most this many chunks
MaxChanges == 4   \* entries the changes array can hold before the heap is exhausted
MaxRetries == 4   \* largest value of the retries parameter
MaxTasks   == 3   \* tasks in the queue document

(***************************************************************************)
(* Characters and strings.                                                 *)
(***************************************************************************)
NL == "\n"

\* String.prototype.trim / the regex class \s, over the model's alphabet
IsWs(c) == c \in {" ", NL}

Substring(t, a, b) == SubSeq(t, a + 1, b)

RECURSIVE TrimStart(_)
TrimStart(s) ==
  IF s # <<>> /\ IsWs(Head(s)) THEN TrimStart(Tail(s)) ELSE s

RECURSIVE TrimEnd(_)
TrimEnd(s) ==
  IF s # <<>> /\ IsWs(s[Len(s)]) THEN TrimEnd(SubSeq(s, 1, Len(s) - 1)) ELSE s

\* String.prototype.trim
Trim(s) == TrimEnd(TrimStart(s))

\* String.prototype.includes('.')
IncludesDot(s) == \E j \in 1..Len(s) : s[j] = "."

(***************************************************************************)
(* The regular expression /^===\s*(.+?)\s*===/gm of part_000, line 23.     *)
(***************************************************************************)
\* ^ under the m flag
LineStart(t, p) == p = 0 \/ t[p] = NL

Eq3At(t, p) == p + 3 <= Len(t) /\ t[p + 1] = "=" /\ t[p + 2] = "=" /\ t[p + 3] = "="

\* length of the run of whitespace that starts at index p
RECURSIVE WsRun(_, _)
WsRun(t, p) == IF p < Len(t) /\ IsWs(t[p + 1]) THEN 1 + WsRun(t, p + 1) ELSE 0

NoMatch == [ok |-> FALSE, index |-> 0, tokStart |-> 0, tokEnd |-> 0, end |-> 0]

\* (.+?)\s*=== with the token ending before index b, trying that end and then
\* later ones (lazy): the end with which the rest matches, or -1 when none
\* does; . matches no newline
RECURSIVE TokenEnd(_, _)
TokenEnd(t, b) ==
  IF b > Len(t) \/ t[b] = NL THEN -1
  ELSE IF Eq3At(t, b + WsRun(t, b)) THEN b
  ELSE TokenEnd(t, b + 1)

\* the match that starts at index p with \s* after the opening === taking n
\* characters, or else fewer (greedy, backtracking)
RECURSIVE MatchWs(_, _, _)
MatchWs(t, p, n) ==
  IF TokenEnd(t, p + 3 + n + 1) >= 0
  THEN [ok |-> TRUE, index |-> p, tokStart |-> p + 3 + n,
        tokEnd |-> TokenEnd(t, p + 3 + n + 1),
        end |-> TokenEnd(t, p + 3 + n + 1) + WsRun(t, TokenEnd(t, p + 3 + n + 1)) + 3]
  ELSE IF n = 0 THEN NoMatch
  ELSE MatchWs(t, p, n - 1)

\* the match of the regex that starts at index p, if any
MatchAt(t, p) ==
  IF LineStart(t, p) /\ Eq3At(t, p) THEN MatchWs(t, p, WsRun(t, p + 3)) ELSE NoMatch

\* regex.exec(text) with regex.lastIndex = from: the first match at or after
\* from (the caller sets lastIndex to .end on a match and to 0 on none)
RECURSIVE Exec(_, _)
Exec(t, from) ==
  IF from > Len(t) THEN NoMatch
  ELSE IF MatchAt(t, from).ok THEN MatchAt(t, from)
  ELSE Exec(t, from + 1)

(***************************************************************************)
(* parseAIResponse of part_000, lines 20-45, step by step.                 *)
(***************************************************************************)
Edit(f, c) == [filename |-> f, content |-> c]

\* line 35 without the test for a period
AcceptedNonEmpty(filename, content) == Len(content) > 0

\* line 35
Accepted(filename, content) == IncludesDot(filename) /\ Len(content) > 0

\* lines 39-41 and the state exec leaves in lastIndex when it finds nothing
CursorAfter(nextMatch) == IF nextMatch.ok THEN nextMatch.index ELSE 0

\* line 26: the while condition
ParseWhile ==
  /\ pc = "parse_while"
  /\ \E m \in {Exec(text, lastIndex)} :
       /\ match' = m
       /\ lastIndex' = IF m.ok THEN m.end ELSE 0
       /\ pc' = IF m.ok THEN "parse_body" ELSE "parse_return"
  /\ UNCHANGED <<entry, mainVars, retryVars, text, changes>>

\* lines 27-41: the loop body
ParseBody ==
  /\ pc = "parse_body"
  /\ \E filename \in {Trim(Substring(text, match.tokStart, match.tokEnd))} :
     \E nextMatch \in {Exec(text, lastIndex)} :
     \E end \in {IF nextMatch.ok THEN nextMatch.index ELSE Len(text)} :
     \E content \in {Trim(Substring(text, lastIndex, end))} :
       IF Accepted(filename, content)
       THEN IF Len(changes) < MaxChanges
            THEN /\ changes' = Append(changes, Edit(filename, content))
                 /\ lastIndex' = CursorAfter(nextMatch)
                 /\ pc' = "parse_while"
                 /\ UNCHANGED exitCode
            ELSE \* the array cannot grow: the engine aborts the process
                 /\ pc' = "idle"
                 /\ exitCode' = "aborted"
                 /\ UNCHANGED <<changes, lastIndex>>
       ELSE /\ lastIndex' = CursorAfter(nextMatch)
            /\ pc' = "parse_while"
            /\ UNCHANGED <<changes, exitCode>>
  /\ UNCHANGED <<entry, variant, disk, disk0, init, backlog, task, written, note,
                 checks, git, saves, repoVars, retryVars, text, match>>

(***************************************************************************)
(* parseAIResponse of scripts/build-pipeline.js, lines 99-119.             *)
(***************************************************************************)
\* text.split('==='): the pieces between successive occurrences of ===
RECURSIVE SplitFrom(_, _, _)
SplitFrom(t, from, p) ==
  IF p + 3 > Len(t) THEN << Substring(t, from, Len(t)) >>
  ELSE IF Eq3At(t, p) THEN << Substring(t, from, p) >> \o SplitFrom(t, p + 3, p + 3)
  ELSE SplitFrom(t, from, p + 1)

Split3(t) == SplitFrom(t, 0, 0)

\* index of the first newline of s (1-based), or 0
RECURSIVE FirstNL(_, _)
FirstNL(s, j) == IF j > Len(s) THEN 0 ELSE IF s[j] = NL THEN j ELSE FirstNL(s, j + 1)

\* lines 103-116 for one part: the edits it contributes
PartEdits(part) ==
  LET trimmed == Trim(part)
      n       == FirstNL(trimmed, 1)
  IN IF trimmed = <<>> THEN <<>>                   \* line 104
     ELSE IF n = 0 THEN <<>>                       \* line 107: fewer than 2 lines
     ELSE LET firstLine == Trim(SubSeq(trimmed, 1, n - 1))
              content   == Trim(SubSeq(trimmed, n + 1, Len(trimmed)))
          IN IF ~IncludesDot(firstLine) THEN <<>>  \* line 110
             ELSE IF firstLine # <<>> /\ content # <<>>
                  THEN << Edit(firstLine, content) >>
                  ELSE <<>>

RECURSIVE SplitEdits(_)
SplitEdits(parts) ==
  IF parts = <<>> THEN <<>> ELSE PartEdits(Head(parts)) \o SplitEdits(Tail(parts))

SplitParse(t) == SplitEdits(Split3(t))

(***************************************************************************)
(* Input texts: concatenations of chunks.                                  *)
(***************************************************************************)
\* "=== a.b ===\nhi\n"
ChunkA == <<"=","=","="," ","a",".","b"," ","=","=","=",NL,"h","i",NL>>
\* "=== c/d.e ===\nx.y\nz\n"
ChunkC == <<"=","=","="," ","c","/","d",".","e"," ","=","=","=",NL,"x",".","y",NL,"z",NL>>
\* "===f.g=== yo\n"
ChunkF == <<"=","=","=","f",".","g","=","=","="," ","y","o",NL>>
\* "=== a.b ===\n \n" : a filename with nothing but whitespace after it
ChunkEmpty == <<"=","=","="," ","a",".","b"," ","=","=","=",NL," ",NL>>
\* "=== END ===\n"
ChunkEnd == <<"=","=","="," ","E","N","D"," ","=","=","=",NL>>
\* "=== Notes ===\nhi\n" : a heading with prose under it
ChunkHead == <<"=","=","="," ","N","o","t","e","s"," ","=","=","=",NL,"h","i",NL>>
\* "no\n" : prose
ChunkProse == <<"n","o",NL>>

\* "p.q\nr\n" : lines of content, the first with a period in it
ChunkCode == <<"p",".","q",NL,"r",NL>>

Chunks == {ChunkA, ChunkC, ChunkF, ChunkEmpty, ChunkEnd, ChunkHead, ChunkProse, ChunkCode}

RECURSIVE TextsOf(_)
TextsOf(n) ==
  IF n = 0 THEN {<<>>}
  ELSE LET shorter == TextsOf(n - 1) IN
       shorter \cup {t \o c : t \in shorter, c \in Chunks}

Texts == TextsOf(MaxChunks)


MaxResponseChunks == 2   \* chunks in a response text of a generation call

Responses == TextsOf(MaxResponseChunks)

(***************************************************************************)
(* callGeminiWithRetry of part_000, lines 6-18, step by step.              *)
(***************************************************************************)
NoOutcome == [kind |-> "none", text |-> <<>>, rateLimit |-> FALSE, id |-> 0]

Undefined == [kind |-> "undefined", text |-> <<>>, rateLimit |-> FALSE, id |-> 0]

\* what the n-th call of model.generateContent can do: resolve with a
\* response, or reject with an error whose message has '429' in it or not
GenResults(n) ==
  {[kind |-> "value", text |-> r, rateLimit |-> FALSE, id |-> n] : r \in Responses}
  \cup {[kind |-> "throw", text |-> <<>>, rateLimit |-> b, id |-> n] : b \in BOOLEAN}

\* line 7
InitialDelayMs == 60000

\* line 15 with the factor 2 in place of 1.5
NextDelayDouble(d) == d * 2

\* line 15: delayMs *= 1.5 (exact for the delays that a call with at most 7
\* retries waits: 60000, 90000, 135000, 202500, 303750, 455625)
NextDelay(d) == (d * 3) \div 2

\* line 12 without the test of the message
RethrownOnlyLast(e, idx, n) == idx = n - 1

\* line 12: the error is thrown to the caller
Rethrown(e, idx, n) == ~e.rateLimit \/ idx = n - 1

\* line 8: the loop test; falling off the loop returns undefined (line 18)
RetryLoop ==
  /\ pc = "retry_loop"
  /\ IF i < retries
     THEN pc' = "retry_call" /\ UNCHANGED outcome
     ELSE pc' = "retry_done" /\ outcome' = Undefined
  /\ UNCHANGED <<entry, mainVars, parseVars, retries, i, attempts, waits, delayMs>>

\* lines 9-12: one generateContent call and what the catch block decides
RetryCall ==
  /\ pc = "retry_call"
  /\ \E r \in GenResults(Len(attempts) + 1) :
       /\ attempts' = Append(attempts, r)
       /\ IF r.kind = "value" \/ Rethrown(r, i, retries)
          THEN pc' = "retry_done" /\ outcome' = r
          ELSE pc' = "retry_wait" /\ UNCHANGED outcome
  /\ UNCHANGED <<entry, mainVars, parseVars, retries, i, waits, delayMs>>

\* lines 13-15 and the i++ of line 8
RetryWait ==
  /\ pc = "retry_wait"
  /\ waits' = Append(waits, delayMs)
  /\ delayMs' = NextDelay(delayMs)
  /\ i' = i + 1
  /\ pc' = "retry_loop"
  /\ UNCHANGED <<entry, mainVars, parseVars, retries, attempts, outcome>>

NextRetry == RetryLoop \/ RetryCall \/ RetryWait

(***************************************************************************)
(* main(), part_000 lines 47-145 and build-pipeline.js lines 6-97.         *)
(***************************************************************************)
Doc(p, c) == [kind |-> "doc", pending |-> p, completed |-> c]

\* a file that JSON.parse rejects: backlog.json truncated by a write that did not finish
Torn == [kind |-> "torn", pending |-> <<>>, completed |-> <<>>]

\* valid JSON without the pending list: backlog.pending is undefined
NoPending(c) == [kind |-> "no pending", pending |-> <<>>, completed |-> c]

\* valid JSON without the completed list: backlog.completed is undefined
NoCompleted(p) == [kind |-> "no completed", pending |-> p, completed |-> <<>>]

\* main() before it has read backlog.json
NoDoc == [kind |-> "none", pending |-> <<>>, completed |-> <<>>]

\* retries = 3, the default of line 6
DefaultRetries == 3

\* process.exit(code), or main() returning (code 0)
Exit(code) == pc' = "idle" /\ exitCode' = code

\* line 55 with the last pending task in place of pending[0]
PeekLast(d) == d.pending[Len(d.pending)]

\* line 55: backlog.pending[0]
Peek(d) == d.pending[1]

\* a new invocation of the script
StartRun ==
  /\ entry = "main"
  /\ pc = "idle"
  /\ pc' = "load"
  /\ disk0' = disk
  /\ backlog' = NoDoc
  /\ task' = 0
  /\ written' = <<>>
  /\ note' = 0
  /\ checks' = <<>>
  /\ git' = <<>>
  /\ saves' = 0
  /\ staged' = "none"
  /\ overwrote' = FALSE
  /\ exitCode' = "none"
  /\ retries' = 0 /\ i' = 0 /\ attempts' = <<>> /\ waits' = <<>> /\ delayMs' = 0
  /\ outcome' = NoOutcome
  /\ text' = <<>> /\ lastIndex' = 0 /\ changes' = <<>> /\ match' = NoMatch
  /\ UNCHANGED <<entry, variant, disk, init, head, notes>>

\* lines 49-55: read and parse backlog.json, stop when nothing is pending;
\* JSON.parse throws on a file that is not JSON, backlog.pending.length throws
\* when there is no pending list
Load ==
  /\ pc = "load"
  /\ IF disk.kind \in {"torn", "no pending"}
     THEN Exit("1") /\ UNCHANGED <<backlog, task>>
     ELSE /\ backlog' = disk
          /\ IF Len(disk.pending) = 0
             THEN Exit("0") /\ UNCHANGED task                    \* line 52
             ELSE pc' = "generate" /\ task' = Peek(disk) /\ UNCHANGED exitCode
  /\ UNCHANGED <<entry, variant, disk, disk0, init, written, note, checks, git, saves,
                 repoVars, retryVars, parseVars>>

\* part_000 line 83: enter callGeminiWithRetry(model, prompt);
\* build-pipeline.js line 42: model.generateContent(prompt) called once.
\* (Lines 58-82 build the prompt and the client and change nothing.)
Generate ==
  /\ pc = "generate"
  /\ IF variant = "part_000"
     THEN /\ retries' = DefaultRetries
          /\ i' = 0
          /\ delayMs' = InitialDelayMs
          /\ pc' = "retry_loop"
          /\ UNCHANGED <<attempts, outcome>>
     ELSE /\ \E r \in GenResults(1) :
               attempts' = <<r>> /\ outcome' = r
          /\ pc' = "retry_done"
          /\ UNCHANGED <<retries, i, delayMs>>
  /\ UNCHANGED <<entry, mainVars, parseVars, waits>>

\* part_000 lines 83-84 / build-pipeline.js lines 42-43: the result of the call;
\* result.response of undefined is a TypeError
Generated ==
  /\ entry = "main"
  /\ pc = "retry_done"
  /\ IF outcome.kind = "value"
     THEN text' = outcome.text /\ pc' = "parse_call" /\ UNCHANGED exitCode
     ELSE Exit("1") /\ UNCHANGED text
  /\ UNCHANGED <<entry, variant, disk, disk0, init, backlog, task, written, note,
                 checks, git, saves, repoVars, retryVars, lastIndex, changes, match>>

\* part_000 line 88: enter parseAIResponse; build-pipeline.js line 47: its
\* parseAIResponse, which has no loop that depends on mutable state
ParseCall ==
  /\ pc = "parse_call"
  /\ IF variant = "part_000"
     THEN pc' = "parse_while" /\ lastIndex' = 0 /\ changes' = <<>>
     ELSE pc' = "apply" /\ changes' = SplitParse(text) /\ UNCHANGED lastIndex
  /\ UNCHANGED <<entry, mainVars, retryVars, text, match>>

\* part_000 lines 88-92: nothing parsed, main() returns
Parsed ==
  /\ entry = "main"
  /\ pc = "parse_return"
  /\ IF Len(changes) = 0
     THEN Exit("0")
     ELSE pc' = "apply" /\ UNCHANGED exitCode
  /\ UNCHANGED <<entry, variant, disk, disk0, init, backlog, task, written, note,
                 checks, git, saves, repoVars, retryVars, parseVars>>

\* Apply with the failure of a write caught and logged, the run going on
\* to validation, as lines 113-123 do for the check commands
ApplySwallow ==
  /\ pc = "apply"
  /\ Len(written) < Len(changes)
  /\ \/ written' = Append(written, changes[Len(written) + 1]) /\ UNCHANGED pc
     \/ pc' = "validate" /\ UNCHANGED written
  /\ UNCHANGED <<entry, variant, disk, disk0, init, backlog, task, note, checks, git,
                 saves, exitCode, staged, head, notes, overwrote, retryVars, parseVars>>

\* lines 96-104: write the next edit; mkdirSync or writeFileSync may throw
Apply ==
  /\ pc = "apply"
  /\ Len(written) < Len(changes)
  /\ \/ written' = Append(written, changes[Len(written) + 1]) /\ UNCHANGED <<pc, exitCode>>
     \/ Exit("1") /\ UNCHANGED written
  /\ UNCHANGED <<entry, variant, disk, disk0, init, backlog, task, note, checks, git,
                 saves, staged, head, notes, overwrote, retryVars, parseVars>>

\* lines 106-110 and 138-140: the progress note docs/progress/<date>-<id>.md,
\* written with the date of the moment, which is the day of the notes there
\* are or a later one; then the test of hasChanges, which the loop of lines
\* 96-104 has set when it wrote at least one edit. On a later day the path is
\* a new one, which the last commit does not hold.
WriteNote ==
  /\ pc = "apply"
  /\ Len(written) = Len(changes)
  /\ note' = note + 1
  /\ \E newDay \in BOOLEAN :
       /\ notes' = IF newDay THEN {task} ELSE notes \cup {task}
       /\ overwrote' = (~newDay /\ task \in notes)
       /\ head' = IF newDay THEN 0 ELSE head
  /\ IF Len(written) > 0
     THEN pc' = "validate" /\ UNCHANGED exitCode
     ELSE Exit("0")
  /\ UNCHANGED <<entry, variant, disk, disk0, init, backlog, task, written, checks, git,
                 saves, staged, retryVars, parseVars>>

\* a check command exits zero, exits non-zero, or cannot be started
CheckOutcomes == {"zero", "nonzero", "failed"}

\* Validate without the try/catch of lines 113-123 and the "|| true" of the
\* commands: a check that does not exit zero is thrown to line 141
ValidateFatal ==
  /\ pc = "validate"
  /\ \E a, b \in CheckOutcomes :
       /\ checks' = <<a, b>>
       /\ IF a = "zero" /\ b = "zero"
          THEN pc' = "publish" /\ UNCHANGED exitCode
          ELSE Exit("1")
  /\ UNCHANGED <<entry, variant, disk, disk0, init, backlog, task, written, note, git,
                 saves, repoVars, retryVars, parseVars>>

\* lines 113-125: both check commands, every outcome caught and logged
Validate ==
  /\ pc = "validate"
  /\ \E a, b \in CheckOutcomes : checks' = <<a, b>>
  /\ pc' = "publish"
  /\ UNCHANGED <<entry, variant, disk, disk0, init, backlog, task, written, note, git,
                 saves, exitCode, repoVars, retryVars, parseVars>>

\* lines 127-133, in order
GitCommands == <<"config user.name", "config user.email", "add", "commit", "push">>

\* What git add . can find to stage: the difference between the working tree
\* and the last commit. The files this run wrote are all committed only if
\* the last commit was made for the same task on the same day; then there is
\* nothing to stage when the run wrote the same bytes again and nothing else
\* has changed, and something otherwise.
Stageable == IF head = task THEN {"changes", "nothing"} ELSE {"changes"}

\* What a git command that returns leaves behind. git commit returns only
\* when something is staged (with nothing staged it exits 1), and then the
\* last commit holds the files this run wrote.
Returned(cmd) ==
  /\ cmd = "commit" => staged = "changes"
  /\ IF cmd = "add" THEN staged' \in Stageable ELSE UNCHANGED staged
  /\ head' = IF cmd = "commit" THEN task ELSE head
  /\ UNCHANGED <<notes, overwrote>>

\* Publish with the failure of a git command caught and logged, as lines
\* 113-123 do for the check commands
PublishSwallow ==
  /\ pc = "publish"
  /\ \/ /\ Returned(GitCommands[Len(git) + 1])
        /\ git' = Append(git, GitCommands[Len(git) + 1])
        /\ pc' = IF Len(git) + 1 = Len(GitCommands) THEN "advance" ELSE "publish"
     \/ pc' = "advance" /\ UNCHANGED <<git, repoVars>>
  /\ UNCHANGED <<entry, variant, disk, disk0, init, backlog, task, written, note, checks,
                 saves, exitCode, retryVars, parseVars>>

\* lines 127-133: the next git command; execSync throws when the command
\* exits non-zero or cannot be run
Publish ==
  /\ pc = "publish"
  /\ \/ /\ Returned(GitCommands[Len(git) + 1])
        /\ git' = Append(git, GitCommands[Len(git) + 1])
        /\ pc' = IF Len(git) + 1 = Len(GitCommands) THEN "advance" ELSE "publish"
        /\ UNCHANGED exitCode
     \/ Exit("1") /\ UNCHANGED <<git, repoVars>>
  /\ UNCHANGED <<entry, variant, disk, disk0, init, backlog, task, written, note, checks,
                 saves, retryVars, parseVars>>

\* line 135 with pending[0] in place of pending.shift()
AdvancedNoShift(b) == Doc(b.pending, Append(b.completed, Head(b.pending)))

\* line 135: backlog.completed.push(backlog.pending.shift())
Advanced(b) == Doc(Tail(b.pending), Append(b.completed, Head(b.pending)))

\* line 135, and line 136 as far as opening backlog.json for writing, which
\* truncates it; without a completed list backlog.completed.push throws
\* before anything is shifted or written
Advance ==
  /\ pc = "advance"
  /\ IF backlog.kind = "no completed"
     THEN Exit("1") /\ UNCHANGED <<backlog, disk>>
     ELSE /\ backlog' = Advanced(backlog)
          /\ disk' = Torn
          /\ pc' = "save"
          /\ UNCHANGED exitCode
  /\ UNCHANGED <<entry, variant, disk0, init, task, written, note, checks, git, saves,
                 repoVars, retryVars, parseVars>>

\* line 136 from there: the document is written out; line 137, main() returns.
\* The write is taken to complete unless the process is killed. The task is
\* done: no later run writes its files or its progress note again.
Save ==
  /\ pc = "save"
  /\ disk' = backlog
  /\ saves' = saves + 1
  /\ head' = 0
  /\ notes' = notes \ {task}
  /\ Exit("0")
  /\ UNCHANGED <<entry, variant, disk0, init, backlog, task, written, note, checks, git,
                 staged, overwrote, retryVars, parseVars>>

\* the process is terminated from outside at any point of a run
Kill ==
  /\ entry = "main"
  /\ pc # "idle"
  /\ Exit("killed")
  /\ UNCHANGED <<entry, variant, disk, disk0, init, backlog, task, written, note, checks,
                 git, saves, repoVars, retryVars, parseVars>>

(***************************************************************************)
(* Initial states and specifications.                                      *)
(***************************************************************************)
Iota(a, b) == [j \in 1..(b - a + 1) |-> a + j - 1]

\* everything but what the entry point at hand sets
InitRest ==
  /\ backlog = NoDoc
  /\ disk0 = disk
  /\ task = 0
  /\ written = <<>>
  /\ note = 0
  /\ checks = <<>>
  /\ git = <<>>
  /\ saves = 0
  /\ staged = "none"
  /\ head = 0
  /\ notes = {}
  /\ overwrote = FALSE
  /\ exitCode = "none"
  /\ i = 0
  /\ attempts = <<>>
  /\ waits = <<>>
  /\ outcome = NoOutcome
  /\ lastIndex = 0
  /\ changes = <<>>
  /\ match = NoMatch

\* runs of the script over a queue document of tasks 1..n, the first c of them completed
Init ==
  /\ entry = "main"
  /\ variant \in {"part_000", "build-pipeline"}
  /\ pc = "idle"
  /\ \E n \in 0..MaxTasks : \E c \in 0..n :
       /\ disk = Doc(Iota(c + 1, n), Iota(1, c))
       /\ init = Iota(1, n)
  /\ retries = 0
  /\ delayMs = 0
  /\ text = <<>>
  /\ InitRest

Next ==
  \/ StartRun \/ Load \/ Generate \/ RetryLoop \/ RetryCall \/ RetryWait \/ Generated
  \/ ParseCall \/ ParseWhile \/ ParseBody \/ Parsed
  \/ Apply \/ WriteNote \/ Validate \/ Publish \/ Advance \/ Save \/ Kill

Spec == Init /\ [][Next]_vars

\* runs of the script over a backlog.json that may be malformed: not JSON, or
\* JSON without the pending list or without the completed list
InitMalformed ==
  /\ entry = "main"
  /\ variant \in {"part_000", "build-pipeline"}
  /\ pc = "idle"
  /\ \E n \in 0..MaxTasks : \E c \in 0..n :
       /\ disk \in {Doc(Iota(c + 1, n), Iota(1, c)), Torn,
                    NoPending(Iota(1, c)), NoCompleted(Iota(c + 1, n))}
       /\ init = Iota(1, n)
  /\ retries = 0
  /\ delayMs = 0
  /\ text = <<>>
  /\ InitRest

SpecMalformed == InitMalformed /\ [][Next]_vars

\* one call callGeminiWithRetry(model, prompt, retries)
InitRetry ==
  /\ entry = "callGeminiWithRetry"
  /\ variant = "part_000"
  /\ pc = "retry_loop"
  /\ disk = Doc(<<>>, <<>>)
  /\ init = <<>>
  /\ retries \in 0..MaxRetries
  /\ delayMs = InitialDelayMs
  /\ text = <<>>
  /\ InitRest

SpecRetry == InitRetry /\ [][NextRetry]_vars

\* one call parseAIResponse(text), of part_000 or of build-pipeline.js; the
\* call of build-pipeline.js has returned changes when pc = "apply"
InitParse ==
  /\ entry = "parseAIResponse"
  /\ variant \in {"part_000", "build-pipeline"}
  /\ pc = "parse_call"
  /\ disk = Doc(<<>>, <<>>)
  /\ init = <<>>
  /\ retries = 0
  /\ delayMs = 0
  /\ text \in Texts
  /\ InitRest

NextParse == ParseCall \/ ParseWhile \/ ParseBody

SpecParse == InitParse /\ [][NextParse]_vars

\* one call parseAIResponse(text) of part_000 that runs on: every step that
\* can be taken is taken
InitParse000 == InitParse /\ variant = "part_000"

FairParse == InitParse000 /\ [][NextParse]_vars /\ WF_vars(NextParse)

(***************************************************************************)
(* Properties.                                                             *)
(***************************************************************************)
Range(s) == {s[j] : j \in 1..Len(s)}

IsPrefix(s, t) == Len(s) <= Len(t) /\ s = SubSeq(t, 1, Len(s))

\* the run ended by itself, through process.exit or by main() returning
Ended == pc = "idle" /\ exitCode \in {"0", "1"}

\* the document that advance is to persist for a run that loaded d
Dequeued(d) == Doc(SubSeq(d.pending, 2, Len(d.pending)), d.completed \o <<d.pending[1]>>)

\* C1 (queue advance gating): in a run of main(), as long as git push has not
\* returned successfully backlog.json is the document the run started with, so
\* a run in which git add, git commit or git push fails leaves pending and
\* completed as they were; a run that ends with all of them successful leaves
\* the document with the head of pending moved to the end of completed.
QueueAdvanceGating ==
  /\ "push" \notin Range(git) => disk = disk0
  /\ (Ended /\ "push" \in Range(git)) =>
       /\ disk0.kind = "doc"
       /\ Len(disk0.pending) > 0
       /\ disk = Dequeued(disk0)

\* a run over pending = [T1, T2] has published and ended with pending = [T2]
QueueAdvanceGatingWitness ==
  /\ Ended
  /\ "push" \in Range(git)
  /\ Len(disk0.pending) = 2
  /\ disk.pending = <<disk0.pending[2]>>
  /\ disk.completed = Append(disk0.completed, disk0.pending[1])

\* C2 (backlog invariant): after any sequence of runs, the queue document on
\* disk holds the tasks of the first document, each once: completed followed
\* by pending is that sequence, so nothing is lost, duplicated or reordered and
\* tasks enter completed in the order in which they headed pending. The file
\* is something else than a document only while line 136 writes it, or from
\* the moment the process is killed during that write.
BacklogInvariant ==
  /\ disk.kind = "doc" => disk.completed \o disk.pending = init
  /\ disk.kind # "doc" => (pc = "save" \/ exitCode = "killed" \/ disk0.kind # "doc")

\* a run has advanced a queue that earlier runs had advanced already
BacklogInvariantWitness ==
  /\ Ended
  /\ saves = 1
  /\ Len(disk.completed) = MaxTasks
  /\ Len(disk0.completed) = MaxTasks - 1
  /\ disk.pending = <<>>

\* C3 (atomic advance), as claimed: when the process is killed, backlog.json
\* is the complete document the run started with or the complete document
\* advance was writing.
AtomicAdvance ==
  (pc = "idle" /\ exitCode = "killed") =>
    \/ disk = disk0
    \/ /\ disk0.kind = "doc"
       /\ Len(disk0.pending) > 0
       /\ disk = Dequeued(disk0)

RateLimited(r) == r.kind = "throw" /\ r.rateLimit

OtherErrorPropagates ==
  \A j \in 1..Len(attempts) :
    (attempts[j].kind = "throw" /\ ~attempts[j].rateLimit) =>
      /\ j = Len(attempts)
      /\ pc = "retry_done"
      /\ outcome = attempts[j]
      /\ Len(waits) = j - 1

\* the third attempt of a call with retries = 4 failed with another error
\* after two rate-limited attempts
OtherErrorPropagatesWitness ==
  /\ retries = 4
  /\ Len(attempts) = 3
  /\ RateLimited(attempts[1]) /\ RateLimited(attempts[2])
  /\ attempts[3].kind = "throw" /\ ~attempts[3].rateLimit
  /\ outcome = attempts[3]

\* The delimiter lines of a text in order, as the specification of the
\* parser has them: the successive matches of the delimiter pattern, each
\* searched from the end of the one before.
RECURSIVE Delimiters(_, _)
Delimiters(t, from) ==
  LET m == Exec(t, from) IN
  IF m.ok THEN <<m>> \o Delimiters(t, m.end) ELSE <<>>

\* the blocks of a text: the token of each delimiter with the trimmed text
\* between that delimiter and the next one (or the end of the text)
Blocks(t) ==
  LET ds == Delimiters(t, 0) IN
  [j \in 1..Len(ds) |->
     [filename |-> Trim(Substring(t, ds[j].tokStart, ds[j].tokEnd)),
      content  |-> Trim(Substring(t, ds[j].end,
                                  IF j < Len(ds) THEN ds[j + 1].index ELSE Len(t)))]]

ValidBlock(b) == (\E j \in 1..Len(b.filename) : b.filename[j] = ".") /\ b.content # <<>>

AcceptedBlocks(t) == SelectSeq(Blocks(t), ValidBlock)

TokenEND == <<"E", "N", "D">>

\* C6 (parser ordering), as claimed: for a text of three delimiter blocks A,
\* B, C, each with a period in its token and non-empty content, the changes
\* parseAIResponse of part_000 collects are at any time the first of [A, B, C],
\* each block once, and it returns exactly [A, B, C].
ParserOrdering ==
  (/\ variant = "part_000"
   /\ Len(Blocks(text)) = 3
   /\ \A j \in 1..3 : ValidBlock(Blocks(text)[j])) =>
    /\ IsPrefix(changes, Blocks(text))
    /\ pc = "parse_return" => changes = Blocks(text)

\* C7 (parser filtering): whatever either parseAIResponse has collected has a
\* period in its filename and non-empty, trimmed content, and never the token
\* END; in part_000 the entries collected are accepted blocks of the text and
\* the first ones are the accepted blocks in order, so that dropping a block
\* (an END block, a block of no content) costs no other block its place.
ParserFiltering ==
  /\ \A j \in 1..Len(changes) :
       /\ \E n \in 1..Len(changes[j].filename) : changes[j].filename[n] = "."
       /\ changes[j].content # <<>>
       /\ changes[j].content = Trim(changes[j].content)
       /\ changes[j].filename # TokenEND
  /\ variant = "part_000" =>
       LET acc == AcceptedBlocks(text) IN
       \A j \in 1..Len(changes) :
         /\ changes[j] \in Range(acc)
         /\ j <= Len(acc) => changes[j] = acc[j]

\* parseAIResponse of part_000 has scanned a text that has an END block, a
\* block of no content under a filename, and accepted blocks, once to its end
ParserFilteringWitness ==
  /\ variant = "part_000"
  /\ pc = "parse_while"
  /\ lastIndex = 0
  /\ changes # <<>>
  /\ changes = AcceptedBlocks(text)
  /\ \E b \in Range(Blocks(text)) : b.filename = TokenEND
  /\ \E b \in Range(Blocks(text)) : b.filename = <<"a", ".", "b">> /\ b.content = <<>>

\* C8 (parser emptiness), as claimed: on a text without accepted blocks
\* parseAIResponse of part_000 returns, and returns the empty list.
ParserEmptiness ==
  (variant = "part_000" /\ AcceptedBlocks(text) = <<>>) =>
    <>(pc = "parse_return" /\ changes = <<>>)

\* C9 (no-op scenario), as claimed: in a run of either script that has its
\* response text and no accepted block from it, no edit and no progress note
\* is written, no git command is issued, backlog.json is as it was, and the
\* run does not end with an error.
NoOpScenario ==
  (outcome.kind = "value" /\ changes = <<>>) =>
    /\ written = <<>>
    /\ note = 0
    /\ git = <<>>
    /\ saves = 0
    /\ disk = disk0
    /\ exitCode # "1"

\* C10 (write failure): the files written are at any time the first of the
\* parsed edits, in order; a run that has ended by itself with an edit k
\* unwritten, which is a run in which writing edit k threw, has left edits
\* 1..k-1 written and none after, has written no progress note, has run no
\* check and no git command, has left backlog.json as it was, and has ended
\* with exit status 1.
WriteFailure ==
  /\ IsPrefix(written, changes)
  /\ (Ended /\ Len(written) < Len(changes)) =>
       /\ exitCode = "1"
       /\ note = 0
       /\ checks = <<>>
       /\ git = <<>>
       /\ saves = 0
       /\ disk = disk0

\* writing the second of two different edits failed
WriteFailureWitness ==
  /\ Ended
  /\ exitCode = "1"
  /\ Len(changes) = 2
  /\ changes[1] # changes[2]
  /\ written = <<changes[1]>>

\* C11 (validation never blocks publication): a run is at the check commands
\* only after it has written an edit; whatever the two commands do, the step
\* that runs them leaves the run at git config/add/commit/push unless the
\* process is killed; a run that ran them and ended with exit status 1 ended
\* so because a git command failed, and one whose git commands all returned
\* has advanced the queue and ended with exit status 0.
ValidationNeverBlocks ==
  /\ [](/\ pc = "validate" => written # <<>>
        /\ checks # <<>> => /\ Len(checks) = 2
                            /\ pc \in {"publish", "advance", "save", "idle"}
        /\ (checks # <<>> /\ pc = "idle" /\ exitCode = "1") => Len(git) < Len(GitCommands)
        /\ (checks # <<>> /\ Ended /\ Len(git) = Len(GitCommands)) =>
              /\ exitCode = "0"
              /\ saves = 1
              /\ disk = Dequeued(disk0))
  /\ [][pc = "validate" => (pc' = "publish" \/ exitCode' = "killed")]_vars

\* a run in which the first check could not be started and the second exited
\* non-zero has published and advanced the queue
ValidationNeverBlocksWitness ==
  /\ Ended
  /\ checks = <<"failed", "nonzero">>
  /\ exitCode = "0"
  /\ "push" \in Range(git)
  /\ saves = 1
  /\ disk = Dequeued(disk0)

\* C12 (publisher with nothing staged), as claimed: a run in which git add
\* found nothing to stage, such as the run that writes again, byte for byte,
\* the tree that an earlier run committed before it was stopped short of
\* advancing the queue, does not end with exit status 1: it ends with the
\* queue advanced.
NothingStagedPublishes ==
  (Ended /\ staged = "nothing") =>
    /\ exitCode = "0"
    /\ saves = 1
    /\ disk = Dequeued(disk0)

\* a run has started and gone past the load of lines 49-53 without being killed
PastLoad == pc # "load" /\ ~(pc = "idle" /\ exitCode = "none") /\ exitCode # "killed"

\* C13 (malformed queue document), as claimed: a run over a backlog.json that
\* is not JSON, or is JSON without the pending list or without the completed
\* list, goes from the load straight to exit status 1: it issues no generation
\* call, writes no file, and runs no git command.
MalformedFailsAtLoad ==
  (disk0.kind # "doc" /\ PastLoad) =>
    /\ pc = "idle"
    /\ exitCode = "1"
    /\ attempts = <<>>
    /\ written = <<>>
    /\ note = 0
    /\ git = <<>>

\* a fatal error of the run: a malformed queue document, a generation call
\* that failed (rate limit exhausted or another error), a write of an edit
\* that threw, a git command that failed
Fatal ==
  \/ disk0.kind # "doc"
  \/ outcome.kind \in {"throw", "undefined"}
  \/ Len(written) < Len(changes)
  \/ (checks # <<>> /\ Len(git) < Len(GitCommands))

\* C14 (process exit codes), as claimed: a run that has ended by itself has
\* status 1 if a fatal error occurred in it, and status 0 if it wrote the
\* advanced queue document or found a well-formed queue with nothing pending.
ExitCodes ==
  Ended =>
    /\ Fatal => exitCode = "1"
    /\ saves = 1 => exitCode = "0"
    /\ (disk0.kind = "doc" /\ disk0.pending = <<>>) => exitCode = "0"

\* C15 (one task per run): a run writes backlog.json at most once; the task
\* it works on is the one that headed pending when it loaded the document;
\* the commit of the run is made for that task; the file is at any time the
\* document loaded, that document with its head task moved to the end of
\* completed, or the truncated file in between, and after the write the task
\* moved is the task of the run.
OneTaskPerRun ==
  /\ saves <= 1
  /\ task # 0 => (disk0.kind = "doc" /\ disk0.pending # <<>> /\ task = disk0.pending[1])
  /\ ("commit" \in Range(git) /\ saves = 0) => head = task
  /\ disk # disk0 => (task # 0 /\ "push" \in Range(git) /\ disk \in {Torn, Dequeued(disk0)})
  /\ saves = 1 =>
       /\ disk = Dequeued(disk0)
       /\ disk.completed[Len(disk.completed)] = task
       /\ disk.pending = Tail(disk0.pending)

\* a run over a queue of several pending tasks has committed for the first
\* of them and moved that one, and no other, to completed
OneTaskPerRunWitness ==
  /\ Ended
  /\ saves = 1
  /\ Len(disk0.pending) = MaxTasks
  /\ task = disk0.pending[1]
  /\ disk.completed = <<task>>
  /\ Len(disk.pending) = MaxTasks - 1

\* C16 (progress note is write-once), as claimed: no run writes its progress
\* note over a note that exists for the same date and task, whatever became
\* of the run that wrote the first one; and when a run has ended, no task
\* that is not completed has a note.
ProgressNoteWriteOnce ==
  /\ ~overwrote
  /\ Ended => \A t \in notes : t \in Range(disk.completed)

\* C17 (parser termination), as claimed: in a call of parseAIResponse of
\* part_000 the loop body never leaves regex.lastIndex before the place where
\* it found it, the look-ahead exec that finds no further delimiter included;
\* the list never holds more entries than the text has delimiter lines; and
\* the call returns after finitely many regex.exec steps.
ParserTerminates ==
  /\ [][pc = "parse_body" => lastIndex' >= lastIndex]_vars
  /\ [](Len(changes) <= Len(Delimiters(text, 0)))
  /\ <>(pc = "parse_return")

\* C18 (backoff schedule): the first wait of a call of callGeminiWithRetry is
\* 60000 ms and each later wait is 1.5 times the one before; every wait
\* follows a rate-limited attempt that was not the last one allowed, and
\* exactly one wait lies between two consecutive attempts: while the call
\* waits and when it is over after n >= 1 attempts there have been n - 1
\* waits, so none follows the final attempt or an error of another kind.
BackoffSchedule ==
  /\ waits # <<>> => waits[1] = 60000
  /\ \A j \in 1..(Len(waits) - 1) : 2 * waits[j + 1] = 3 * waits[j]
  /\ \A j \in 1..Len(waits) : RateLimited(attempts[j]) /\ j < retries
  /\ pc \in {"retry_loop", "retry_call"} => Len(waits) = Len(attempts)
  /\ pc = "retry_wait" => Len(waits) = Len(attempts) - 1
  /\ (pc = "retry_done" /\ attempts # <<>>) => Len(waits) = Len(attempts) - 1
  /\ pc = "retry_done" => Len(waits) = i

\* a call with retries = 4 has made its fourth attempt after waiting three times
BackoffScheduleWitness ==
  /\ pc = "retry_done"
  /\ retries = 4
  /\ Len(attempts) = 4
  /\ waits = <<60000, 90000, 135000>>

\* A response in the documented protocol: it begins with a delimiter line,
\* every delimiter is the whole of its line, and every block has a period in
\* its filename and content under it, but for an END sentinel that may close
\* the text.
Protocol(t) ==
  LET ds == Delimiters(t, 0)
      bs == Blocks(t)
  IN /\ ds # <<>>
     /\ ds[1].index = 0
     /\ \A j \in 1..Len(ds) : ds[j].end < Len(t) /\ t[ds[j].end + 1] = NL
     /\ \A j \in 1..Len(bs) :
          \/ ValidBlock(bs[j])
          \/ j = Len(bs) /\ j > 1 /\ bs[j].filename = TokenEND /\ bs[j].content = <<>>

\* C19 (response block protocol in build-pipeline.js), as claimed: for a
\* response in the documented protocol the parseAIResponse of
\* build-pipeline.js returns one edit per block, with the filename of its
\* delimiter line and its trimmed content, in the order of the text: the list
\* the delimiter-scanning contract prescribes.
SplitParserProtocol ==
  (variant = "build-pipeline" /\ pc = "apply" /\ Protocol(text)) =>
    changes = AcceptedBlocks(text)

\* the edits a response text holds for the script that runs: the accepted
\* blocks of the delimiter protocol for part_000, what its own parser makes
\* of the text for build-pipeline.js
Yield(t) == IF variant = "part_000" THEN AcceptedBlocks(t) ELSE SplitParse(t)

\* a run is over: the process has exited or died
RunOver == pc = "idle" /\ exitCode # "none"

\* Nothing failed in the run: the generation call returned a response that
\* holds at least one accepted edit, no write and no git command failed, and
\* the process was not killed.
Smooth == outcome.kind = "value" /\ Yield(text) # <<>> /\ exitCode \notin {"1", "killed"}

\* C20 (queue drain), as claimed: a run over a queue document with pending
\* tasks in which nothing failed is over with the head of pending moved to
\* completed and exit status 0, so that n such runs empty a queue of n pending
\* tasks; the emptied queue has in completed the tasks of the first document
\* in order; and a run that finds nothing pending exits 0 without a generation
\* call, a file written, a git command or a write of backlog.json.
QueueDrain ==
  /\ (RunOver /\ Smooth /\ disk0.kind = "doc" /\ disk0.pending # <<>>) =>
       /\ exitCode = "0"
       /\ disk = Dequeued(disk0)
  /\ (disk.kind = "doc" /\ disk.pending = <<>>) => disk.completed = init
  /\ (RunOver /\ exitCode # "killed" /\ disk0.kind = "doc" /\ disk0.pending = <<>>) =>
       /\ exitCode = "0"
       /\ attempts = <<>>
       /\ written = <<>>
       /\ note = 0
       /\ git = <<>>
       /\ saves = 0
       /\ disk = disk0
====
